---- MODULE Spec2Model ----
(***************************************************************************)
(* Model of the hp-adaptive driver of hermes1d                             *)
(* (tests/adapt-exact-quadr-H1/main.cpp), of the PETSc linear-solve        *)
(* backend (hermes_common/src/solvers/interfaces/petsc_solver.cpp) and of  *)
(* the initial condition of the hermes2d tutorial 05-newton-heat-rk        *)
(* (initial_condition.cpp).                                                *)
(*                                                                         *)
(* Units.  Residual norms are counted in units of 1e-6, squared residual   *)
(* norms in units of 1e-12.  Errors (fractions and percentages alike) are  *)
(* counted in units of 1e-12, so that 1e-3 is 1000000000, 1e-5 is 10000000 *)
(* and 1e-10 is 100.                                                       *)
(*                                                                         *)
(* Coefficient vectors are represented by their length and by the index n  *)
(* of the Newton iterate Y^n they hold (the notation of the source's       *)
(* comments): an update Y^n + dY^{n+1} gives the iterate n + 1.            *)
(*                                                                         *)
(* The mesh of a Space is represented by what the driver reads of it: the  *)
(* number of active elements, the degrees of the first and of the last     *)
(* active element and the number of degrees of freedom.  Each is counted   *)
(* exactly below its cap; a value at the cap stands for "the cap or more". *)
(***************************************************************************)
EXTENDS Integers, Sequences, FiniteSets, TLC

VARIABLES
  pc,                \* position of main()
  run,               \* the Newton loop being executed
  NEWTON_MAX_ITER,   \* configured maximum number of Newton iterations
  matrix_solver,     \* configured linear-solver backend
  linear_exact,      \* the problem is linear and the backend solves it exactly
  space,             \* the coarse Space
  ref_space,         \* the reference Space of the current adaptivity step
  coeff_vec,         \* coeff_vec / coeff_vec_coarse of the running Newton loop
  it,                \* Newton iteration counter
  ndof,              \* ndof / ndof_coarse read at the top of the iteration
  res_norm_squared,  \* squared l2 norm of the assembled residual
  ec,                \* error code of the last KSPSolve
  as,                \* adaptivity step
  success_test,      \* verdict flag of the test
  err_est_rel,       \* estimated relative error, as the driver holds it
  err_exact_rel,     \* exact relative error, as the driver holds it
  msg,               \* message of the fatal error() that ended the program
  ret,               \* value returned by main()
  hist,              \* record of what has happened (observation only)
  thread,            \* per thread: the add operation it executes and where
  critical,          \* per named omp critical section: the thread inside, or 0
  mesh,              \* a coarse Space, element by element
  ref_mesh,          \* its reference Space, element by element
  call,              \* the arguments of the adapt call that is being made
  num_petsc_objects, \* the static counter of petsc_solver.cpp
  petsc,             \* the PETSc library: initialized, finalized
  wrapper,           \* the PetscMatrix / PetscVector / solver objects
  handles,           \* number of Mat and Vec handles alive in PETSc
  outcome,           \* how the last operation on a wrapper ended
  point              \* a point and what the initial condition returned there

\* The state of main().
main_vars == <<pc, run, NEWTON_MAX_ITER, matrix_solver, linear_exact, space,
               ref_space, coeff_vec, it, ndof, res_norm_squared, ec, as,
               success_test, err_est_rel, err_exact_rel, msg, ret, hist>>

\* The state of the threads that add into the PETSc accumulators.
omp_vars == <<thread, critical>>

\* A Space handled element by element.
mesh_vars == <<mesh, ref_mesh, call>>

\* The PETSc wrappers and the library behind them.
petsc_vars == <<num_petsc_objects, petsc, wrapper, handles, outcome>>

\* The initial condition of the heat-transfer tutorial, at one point.
point_vars == <<point>>

vars == <<pc, run, NEWTON_MAX_ITER, matrix_solver, linear_exact, space,
          ref_space, coeff_vec, it, ndof, res_norm_squared, ec, as,
          success_test, err_est_rel, err_exact_rel, msg, ret, hist,
          thread, critical, mesh, ref_mesh, call, num_petsc_objects, petsc,
          wrapper, handles, outcome, point>>

----------------------------------------------------------------------------
(* Bounds of the model *)

MaxNewtonIter == 2      \* NEWTON_MAX_ITER ranges over 1..MaxNewtonIter
MaxP == 3               \* cap of the element degrees
MaxElem == 3            \* cap of the number of active elements
MaxDof == 2             \* cap of the number of degrees of freedom
NumThreads == 2         \* threads that add into the accumulators
MaxEntries == 2         \* size of a PetscVector, and most entries of one add
MaxRefinements == 2     \* refinements adapt makes to one Space, in all
MaxObjects == 3         \* PETSc wrapper objects alive at a time
MaxHandles == 3         \* Mat and Vec handles alive in PETSc at a time
MaxCoord == 11          \* points (x, y) with |x|, |y| <= MaxCoord

(* Program constants *)

ERROR_SUCCESS == 0
ERROR_FAILURE == -1
NELEM == 2
P_init == 1
NEWTON_TOL_COARSE == 1          \* 1e-6
NEWTON_TOL_REF == 1             \* 1e-6
TOL_ERR_REL == 1000000000       \* 1e-3
EXACT_TOL == 100                \* 1e-10
PERCENT == 100                  \* the factor "* 100" of the driver
MAX_ADAPT_STEP == 30            \* the step at which the loop is left

Min(a, b) == IF a < b THEN a ELSE b

NoValue == 0 - 1
NotReturned == 0 - 2

\* The squared residual norms an assembly can produce: 0, which is below
\* the squared tolerance, and 1, which is the squared tolerance itself and
\* so the least value that is not below it.
ResNormsSquared == {0, 1}

\* The values calc_err_est can return (fractions): 0, just below 1e-5,
\* 1e-5, and 2e-5.
ErrEstFractions == {0, 9999999, 10000000, 20000000}

\* The values calc_err_exact can return (fractions): 1e-12 and 2e-12.
ErrExactFractions == {1, 2}

\* The error codes KSPSolve can return.
PetscErrorCodes == {0, 1}

Backends == {"SOLVER_UMFPACK", "SOLVER_PETSC"}

NoVec == [len |-> 0, n |-> 0]
NoSpace == [n_active_elem |-> 0, p_first |-> 0, p_last |-> 0, ndof |-> 0,
            coeffs |-> 0]

----------------------------------------------------------------------------
(* The Space, as far as the driver uses it *)

\* Space(A, B, NELEM, P_init, NEQ), both ends Dirichlet, assign_dofs():
\* NELEM elements with P_init + 1 local coefficients each, two of them
\* fixed by the boundary conditions.
InitialSpace ==
  [n_active_elem |-> NELEM, p_first |-> P_init, p_last |-> P_init,
   ndof |-> Min(NELEM * (P_init + 1) - 2, MaxDof), coeffs |-> 0]

get_num_dofs(s) == s.ndof

\* new double[get_num_dofs(s)]; solution_to_vector(s, vec)
solution_to_vector(s) == [len |-> get_num_dofs(s), n |-> s.coeffs]

\* vector_to_solution(vec, s)
vector_to_solution(v, s) == [s EXCEPT !.coeffs = v.n]

\* construct_refined_space(s): every active element is split in two and its
\* degree is raised by one; the coarse Space is not touched.  Each of the
\* n elements, of p + 1 coefficients, gives way to two of p + 2: with both
\* ends fixed, ndof + 2 coefficients become 2 * (ndof + 2) + 2 * n.  The
\* reference Space starts from the transferred coarse solution (iterate 0).
construct_refined_space(s) ==
  [n_active_elem |-> Min(2 * s.n_active_elem, MaxElem),
   p_first |-> Min(s.p_first + 1, MaxP),
   p_last |-> Min(s.p_last + 1, MaxP),
   ndof |-> Min(2 * s.ndof + 2 * s.n_active_elem + 2, MaxDof + 1),
   coeffs |-> 0]

\* What adapt can do to one element: leave it, raise its degree by one, or
\* split it into two children of the same degree.
Refinements == {"none", "p", "h"}

AddedElems(r) == IF r = "h" THEN 1 ELSE 0
AddedDofs(r, p) == IF r = "p" THEN 1 ELSE IF r = "h" THEN p + 1 ELSE 0
RaisedP(r, p) == IF r = "p" THEN Min(p + 1, MaxP) ELSE p

\* adapt(NORM, ADAPT_TYPE, THRESHOLD, err_est_array, space, ref_space): the
\* Spaces it can leave behind.  The element of maximal error is always a
\* candidate, so at least one element is refined; rf, rl and ri are what is
\* done to the first, to the last and (when there are more than two) to the
\* elements in between.  The dofs are reassigned and the solution is
\* transferred onto the new mesh (iterate 0 of the next coarse solve).
adapt(s) ==
  { [n_active_elem |-> Min(s.n_active_elem + AddedElems(rf) + AddedElems(rl)
                             + AddedElems(ri), MaxElem),
     p_first |-> RaisedP(rf, s.p_first),
     p_last |-> RaisedP(rl, s.p_last),
     ndof |-> Min(s.ndof + AddedDofs(rf, s.p_first) + AddedDofs(rl, s.p_last)
                    + AddedDofs(ri, 1), MaxDof),
     coeffs |-> 0] :
    <<rf, rl, ri>> \in
      { t \in Refinements \X Refinements \X Refinements :
          /\ t # <<"none", "none", "none">>
          /\ (s.n_active_elem < 3 => t[3] = "none") } }

----------------------------------------------------------------------------
(* The linear-solve backends *)

\* PetscLinearMatrixSolver::solve(), given the code e that KSPSolve returns:
\* the code is stored in ec and never looked at; the solution vector is
\* copied out and the function returns normally.
PetscLinearMatrixSolver_solve(e) == [ec |-> e, ok |-> TRUE]

\* Solver::solve() of the other backends: it succeeds or reports failure.
UMFPackLinearSolver_solve == {[ec |-> 0, ok |-> b] : b \in BOOLEAN}

\* What solver->solve() can do in the driver.  A linear problem that the
\* backend solves exactly is one where the solve succeeds.
solve ==
  IF linear_exact THEN {[ec |-> 0, ok |-> TRUE]}
  ELSE IF matrix_solver = "SOLVER_PETSC"
       THEN {PetscLinearMatrixSolver_solve(e) : e \in PetscErrorCodes}
       ELSE UMFPackLinearSolver_solve

----------------------------------------------------------------------------
(* The PETSc library and the count of the objects that use it *)

\* PETSc before PetscInitialize: PetscInitialized and PetscFinalized both
\* report PETSC_FALSE.  n_init counts the calls of
\* PetscInitializeNoArguments (observation only; 2 stands for "2 or more").
NoPetsc == [initialized |-> FALSE, finalized |-> FALSE, n_init |-> 0]

PetscInitializeNoArguments(lib) ==
  [lib EXCEPT !.initialized = TRUE, !.n_init = Min(@ + 1, 2)]

PetscFinalize(lib) == [lib EXCEPT !.initialized = FALSE, !.finalized = TRUE]

\* The counter and the library, as add_petsc_object and remove_petsc_object
\* read and write them.
Runtime == [num_petsc_objects |-> num_petsc_objects, petsc |-> petsc]

\* The message of the exception add_petsc_object throws.
FinalizedMsg ==
  "PETSc cannot be used once it has been finalized. You must restart the application."

\* An add_petsc_object that does not ask whether PETSc was finalized.
Finalized_NotAsked(lib) == FALSE

\* PetscFinalized(&petsc_finalized); if (petsc_finalized == PETSC_TRUE)
Finalized(lib) == lib.finalized

\* The library finalized while one object is left.
LastObjectGone_OneLeft(n) == n <= 1

\* if (--num_petsc_objects == 0), n being the decremented counter
LastObjectGone(n) == n = 0

\* add_petsc_object(): throws once PETSc has been finalized; otherwise
\* initializes PETSc unless it is initialized, and counts the object.  (The
\* function ends without a return statement; no caller reads its value.)
add_petsc_object(rt) ==
  IF Finalized(rt.petsc)
  THEN [threw |-> TRUE, num_petsc_objects |-> rt.num_petsc_objects,
        petsc |-> rt.petsc]
  ELSE [threw |-> FALSE, num_petsc_objects |-> rt.num_petsc_objects + 1,
        petsc |-> IF rt.petsc.initialized THEN rt.petsc
                  ELSE PetscInitializeNoArguments(rt.petsc)]

\* remove_petsc_object(): returns -1 and does nothing if PETSc is finalized
\* or not initialized; otherwise decrements the counter and finalizes PETSc
\* when it reaches 0.  (No caller reads the value returned.)
remove_petsc_object(rt) ==
  IF rt.petsc.finalized \/ ~rt.petsc.initialized
  THEN [num_petsc_objects |-> rt.num_petsc_objects, petsc |-> rt.petsc]
  ELSE [num_petsc_objects |-> rt.num_petsc_objects - 1,
        petsc |-> IF LastObjectGone(rt.num_petsc_objects - 1)
                  THEN PetscFinalize(rt.petsc) ELSE rt.petsc]

\* create_matrix, create_vector and create_linear_solver of the driver with
\* the PETSc backend: a PetscMatrix, a PetscVector and a
\* PetscLinearMatrixSolver are constructed, in this order; an exception of
\* the first constructor that throws ends the sequence.
CreateSolverObjects(rt) ==
  LET matrix == add_petsc_object(rt)
      rhs == IF matrix.threw THEN matrix ELSE add_petsc_object(matrix)
      solver == IF rhs.threw THEN rhs ELSE add_petsc_object(rhs)
  IN  solver

\* delete matrix; delete rhs; delete solver; with the PETSc backend.
DeleteSolverObjects(rt) ==
  remove_petsc_object(remove_petsc_object(remove_petsc_object(rt)))

----------------------------------------------------------------------------
(* Newton's loop (the three copies in main() differ only in the Space and   *)
(* in the tolerance)                                                        *)

NewtonRuns == {"coarse_init", "ref", "coarse"}
NewtonPcs == {"Initializing", "Assembling", "CheckConverged", "LinearSolve",
              "Update", "Converged"}

RunSpace == IF run = "ref" THEN ref_space ELSE space

NEWTON_TOL == IF run = "ref" THEN NEWTON_TOL_REF ELSE NEWTON_TOL_COARSE

\* The squared residual norms the assembler can produce for a coefficient
\* vector that has had `updates` updates.
Residuals(updates) ==
  IF linear_exact /\ updates >= 1 THEN {0} ELSE ResNormsSquared

\* error(...): the message is logged and the program exits.
error(m) ==
  /\ pc' = "Failed"
  /\ msg' = m

\* The loop's exit test without the forced first iteration.
Converged_NoForcedIteration(res, i) == res < NEWTON_TOL * NEWTON_TOL

\* The loop's exit test:
\* if(res_norm_squared < NEWTON_TOL*NEWTON_TOL && it > 1) break;
Converged(res, i) == res < NEWTON_TOL * NEWTON_TOL /\ i > 1

\* A driver that does not look at what solve() returns.
SolveFailed_Ignored(s) == FALSE

\* if(!solver->solve())
SolveFailed(s) == ~s.ok

\* The iteration limit tested one iteration late.
MaxIterReached_OffByOne(i) == i > NEWTON_MAX_ITER

\* if (it >= NEWTON_MAX_ITER)
MaxIterReached(i) == i >= NEWTON_MAX_ITER

\* An update that is not copied to the elements.
WrittenBack_Not(v, s) == s

\* vector_to_solution(coeff_vec, space), as the loop calls it after the
\* update.
WrittenBack(v, s) == vector_to_solution(v, s)

\* An exception that nothing catches: main() has no try block, the program
\* is terminated.
terminate(m) ==
  /\ pc' = "Terminated"
  /\ msg' = m

\* What create_matrix, create_vector and create_linear_solver do to the
\* counter and to the library, and whether one of them throws.
Created ==
  IF matrix_solver = "SOLVER_PETSC" THEN CreateSolverObjects(Runtime)
  ELSE [threw |-> FALSE, num_petsc_objects |-> num_petsc_objects,
        petsc |-> petsc]

\* What deleting the matrix, the rhs and the solver does to them.
Deleted ==
  IF matrix_solver = "SOLVER_PETSC" THEN DeleteSolverObjects(Runtime)
  ELSE Runtime

\* ndof; coeff_vec = new double[ndof]; solution_to_vector; create matrix,
\* rhs and solver; it = 1.
NewtonInit ==
  /\ pc = "Initializing"
  /\ num_petsc_objects' = Created.num_petsc_objects
  /\ petsc' = Created.petsc
  /\ IF Created.threw
     THEN /\ terminate(FinalizedMsg)
          /\ UNCHANGED <<coeff_vec, it, hist>>
     ELSE /\ coeff_vec' = solution_to_vector(RunSpace)
          /\ it' = 1
          /\ \E r \in Residuals(0) :
               hist' = [hist EXCEPT !.n_assemble = 0, !.n_solve = 0, !.F = r]
          /\ pc' = "Assembling"
          /\ msg' = msg
  /\ UNCHANGED <<run, NEWTON_MAX_ITER, matrix_solver, linear_exact, space,
                 ref_space, ndof, res_norm_squared, ec, as, success_test,
                 err_est_rel, err_exact_rel, ret>>
  /\ UNCHANGED omp_vars
  /\ UNCHANGED mesh_vars
  /\ UNCHANGED <<wrapper, handles, outcome>>
  /\ UNCHANGED point_vars

\* ndof = get_num_dofs; dp->assemble(matrix, rhs); res_norm_squared.
Assemble ==
  /\ pc = "Assembling"
  /\ ndof' = get_num_dofs(RunSpace)
  /\ res_norm_squared' = hist.F
  /\ hist' = [hist EXCEPT !.n_assemble = @ + 1]
  /\ pc' = "CheckConverged"
  /\ UNCHANGED <<run, NEWTON_MAX_ITER, matrix_solver, linear_exact, space,
                 ref_space, coeff_vec, it, ec, as, success_test,
                 err_est_rel, err_exact_rel, msg, ret>>
  /\ UNCHANGED omp_vars
  /\ UNCHANGED mesh_vars
  /\ UNCHANGED petsc_vars
  /\ UNCHANGED point_vars

\* if(res_norm_squared < NEWTON_TOL*NEWTON_TOL && it > 1) break;
CheckConverged ==
  /\ pc = "CheckConverged"
  /\ pc' = IF Converged(res_norm_squared, it) THEN "Converged"
           ELSE "LinearSolve"
  /\ UNCHANGED <<run, NEWTON_MAX_ITER, matrix_solver, linear_exact, space,
                 ref_space, coeff_vec, it, ndof, res_norm_squared, ec, as,
                 success_test, err_est_rel, err_exact_rel, msg, ret, hist>>
  /\ UNCHANGED omp_vars
  /\ UNCHANGED mesh_vars
  /\ UNCHANGED petsc_vars
  /\ UNCHANGED point_vars

\* rhs = -rhs; if(!solver->solve()) error("Matrix solver failed.\n");
LinearSolve ==
  /\ pc = "LinearSolve"
  /\ \E s \in solve :
       /\ ec' = s.ec
       /\ hist' = [hist EXCEPT !.n_solve = @ + 1, !.solve_ok = s.ok]
       /\ IF SolveFailed(s) THEN error("Matrix solver failed.")
          ELSE pc' = "Update" /\ msg' = msg
  /\ UNCHANGED <<run, NEWTON_MAX_ITER, matrix_solver, linear_exact, space,
                 ref_space, coeff_vec, it, ndof, res_norm_squared, as,
                 success_test, err_est_rel, err_exact_rel, ret>>
  /\ UNCHANGED omp_vars
  /\ UNCHANGED mesh_vars
  /\ UNCHANGED petsc_vars
  /\ UNCHANGED point_vars

\* coeff_vec[i] += sln[i]; if (it >= NEWTON_MAX_ITER) error(...);
\* vector_to_solution(coeff_vec, space); it++;
Update ==
  /\ pc = "Update"
  /\ coeff_vec' = [coeff_vec EXCEPT !.n = @ + 1]
  /\ \E r \in Residuals(coeff_vec'.n) : hist' = [hist EXCEPT !.F = r]
  /\ IF MaxIterReached(it)
     THEN /\ error("Newton method did not converge.")
          /\ UNCHANGED <<space, ref_space, it, ndof, res_norm_squared>>
     ELSE /\ IF run = "ref"
             THEN /\ ref_space' = WrittenBack(coeff_vec', ref_space)
                  /\ space' = space
             ELSE /\ space' = WrittenBack(coeff_vec', space)
                  /\ ref_space' = ref_space
          /\ it' = it + 1
          /\ ndof' = NoValue
          /\ res_norm_squared' = NoValue
          /\ pc' = "Assembling"
          /\ msg' = msg
  /\ UNCHANGED <<run, NEWTON_MAX_ITER, matrix_solver, linear_exact, ec, as,
                 success_test, err_est_rel, err_exact_rel, ret>>
  /\ UNCHANGED omp_vars
  /\ UNCHANGED mesh_vars
  /\ UNCHANGED petsc_vars
  /\ UNCHANGED point_vars

\* A driver that never solves again on the coarse mesh.
CoarseSolveNeeded_Never == FALSE

\* if (as > 1) { ... Newton's loop on coarse mesh ... }
CoarseSolveNeeded == as > 1

\* Cleanup after the loop: delete matrix, rhs, solver, dp and coeff_vec; the
\* program goes on with what follows this copy of the loop.
NewtonExit ==
  /\ pc = "Converged"
  /\ coeff_vec' = NoVec
  /\ it' = NoValue
  /\ ndof' = NoValue
  /\ res_norm_squared' = NoValue
  /\ ec' = 0
  /\ CASE run = "coarse_init" ->
            /\ pc' = "ConstructRefinedSpace"
            /\ UNCHANGED <<run, hist>>
       [] run = "ref" ->
            /\ hist' = [hist EXCEPT !.ref_conv = as]
            /\ IF CoarseSolveNeeded
               THEN pc' = "Initializing" /\ run' = "coarse"
               ELSE pc' = "CalcErrEst" /\ run' = run
       [] run = "coarse" ->
            /\ hist' = [hist EXCEPT !.coarse_conv = as]
            /\ pc' = "CalcErrEst"
            /\ run' = run
  /\ num_petsc_objects' = Deleted.num_petsc_objects
  /\ petsc' = Deleted.petsc
  /\ UNCHANGED <<NEWTON_MAX_ITER, matrix_solver, linear_exact, space,
                 ref_space, as, success_test, err_est_rel, err_exact_rel,
                 msg, ret>>
  /\ UNCHANGED omp_vars
  /\ UNCHANGED mesh_vars
  /\ UNCHANGED <<wrapper, handles, outcome>>
  /\ UNCHANGED point_vars

----------------------------------------------------------------------------
(* The adaptivity loop *)

\* Space* ref_space = construct_refined_space(space); new DiscreteProblem;
\* the reference Newton loop follows.
ConstructRefinedSpace ==
  /\ pc = "ConstructRefinedSpace"
  /\ ref_space' = construct_refined_space(space)
  /\ run' = "ref"
  /\ hist' = [hist EXCEPT !.n_ref_spaces = @ + 1]
  /\ pc' = "Initializing"
  /\ UNCHANGED <<NEWTON_MAX_ITER, matrix_solver, linear_exact, space,
                 coeff_vec, it, ndof, res_norm_squared, ec, as, success_test,
                 err_est_rel, err_exact_rel, msg, ret>>
  /\ UNCHANGED omp_vars
  /\ UNCHANGED mesh_vars
  /\ UNCHANGED petsc_vars
  /\ UNCHANGED point_vars

\* double err_est_rel = calc_err_est(NORM, space, ref_space, err_est_array)
\*                      * 100;
CalcErrEst ==
  /\ pc = "CalcErrEst"
  /\ \E f \in ErrEstFractions :
       /\ err_est_rel' = f * PERCENT
       /\ hist' = [hist EXCEPT !.frac = f, !.est = as]
  /\ pc' = "CalcErrExact"
  /\ UNCHANGED <<run, NEWTON_MAX_ITER, matrix_solver, linear_exact, space,
                 ref_space, coeff_vec, it, ndof, res_norm_squared, ec, as,
                 success_test, err_exact_rel, msg, ret>>
  /\ UNCHANGED omp_vars
  /\ UNCHANGED mesh_vars
  /\ UNCHANGED petsc_vars
  /\ UNCHANGED point_vars

\* if (EXACT_SOL_PROVIDED) { err_exact_rel = calc_err_exact(...) * 100;
\*   graphs; if (as == 2) if (err_exact_rel > 1e-10) success_test = 0; }
CalcErrExact ==
  /\ pc = "CalcErrExact"
  /\ \E f \in ErrExactFractions :
       /\ err_exact_rel' = f * PERCENT
       /\ success_test' = IF as = 2 /\ err_exact_rel' > EXACT_TOL
                          THEN 0 ELSE success_test
       /\ hist' = IF as = 2 THEN [hist EXCEPT !.exact2 = err_exact_rel']
                            ELSE hist
  /\ pc' = "Decide"
  /\ UNCHANGED <<run, NEWTON_MAX_ITER, matrix_solver, linear_exact, space,
                 ref_space, coeff_vec, it, ndof, res_norm_squared, ec, as,
                 err_est_rel, msg, ret>>
  /\ UNCHANGED omp_vars
  /\ UNCHANGED mesh_vars
  /\ UNCHANGED petsc_vars
  /\ UNCHANGED point_vars

\* The Space has two active elements, the first and the last of degree 2:
\* the three tests on the Space in the block "if (as == 30)".
BothPRefined(s) ==
  /\ s.n_active_elem = 2
  /\ s.p_first = 2
  /\ s.p_last = 2

\* A block "if (as == 30)" that tests nothing.
StepLimitChecks_None(st) == st

\* The checks of the block "if (as == 30)".
StepLimitChecks(st) ==
  IF \/ err_est_rel > EXACT_TOL
     \/ ~BothPRefined(space)
  THEN 0 ELSE st

\* What the rest of a step's body can read once both errors are computed:
\* the step counter, the two errors, the verdict flag and the two Spaces.
Driver ==
  [as |-> as, err_est_rel |-> err_est_rel, err_exact_rel |-> err_exact_rel,
   success_test |-> success_test, space |-> space, ref_space |-> ref_space]

\* The loop left as soon as either error is small.
StopOnToleranceIn_OrExact(d) ==
  d.err_est_rel < TOL_ERR_REL \/ d.err_exact_rel <= EXACT_TOL

\* if(err_est_rel < TOL_ERR_REL) break;
StopOnToleranceIn(d) == d.err_est_rel < TOL_ERR_REL

\* if (as == 30)
StepLimitReachedIn(d) == d.as = MAX_ADAPT_STEP

\* The Spaces passed in adapt(NORM, ADAPT_TYPE, THRESHOLD, err_est_array,
\* space, ref_space).
AdaptCallIn(d) == [space |-> d.space, ref_space |-> d.ref_space]

\* The tolerance test with <= for <.
StopOnTolerance_NotStrict == err_est_rel <= TOL_ERR_REL

\* if(err_est_rel < TOL_ERR_REL) break;
StopOnTolerance == StopOnToleranceIn(Driver)

\* The step limit tested one step late.
StepLimitReached_OffByOne == as = MAX_ADAPT_STEP + 1

\* if (as == 30)
StepLimitReached == StepLimitReachedIn(Driver)

\* if(err_est_rel < TOL_ERR_REL) break;  if (as == 30) { ...; break; }
Decide ==
  /\ pc = "Decide"
  /\ IF StopOnTolerance
     THEN /\ pc' = "Finish"
          /\ hist' = [hist EXCEPT !.stop = "tolerance"]
          /\ success_test' = success_test
     ELSE IF StepLimitReached
     THEN /\ pc' = "Finish"
          /\ hist' = [hist EXCEPT !.stop = "step_limit"]
          /\ success_test' = StepLimitChecks(success_test)
     ELSE /\ pc' = "Adapt"
          /\ UNCHANGED <<hist, success_test>>
  /\ UNCHANGED <<run, NEWTON_MAX_ITER, matrix_solver, linear_exact, space,
                 ref_space, coeff_vec, it, ndof, res_norm_squared, ec, as,
                 err_est_rel, err_exact_rel, msg, ret>>
  /\ UNCHANGED omp_vars
  /\ UNCHANGED mesh_vars
  /\ UNCHANGED petsc_vars
  /\ UNCHANGED point_vars

\* adapt(...); as++; adapt_plotting(...); delete ref_space; the locals of the
\* loop body go out of scope.
Adapt ==
  /\ pc = "Adapt"
  /\ \E s \in adapt(AdaptCallIn(Driver).space) : space' = s
  /\ as' = as + 1
  /\ ref_space' = NoSpace
  /\ err_est_rel' = NoValue
  /\ err_exact_rel' = NoValue
  /\ hist' = [hist EXCEPT !.n_adapt = @ + 1, !.adapt = as,
                          !.first_adapt = IF as = 1
                                          THEN IF BothPRefined(space')
                                               THEN "both_p" ELSE "other"
                                          ELSE @]
  /\ pc' = "ConstructRefinedSpace"
  /\ UNCHANGED <<run, NEWTON_MAX_ITER, matrix_solver, linear_exact,
                 coeff_vec, it, ndof, res_norm_squared, ec, success_test,
                 msg, ret>>
  /\ UNCHANGED omp_vars
  /\ UNCHANGED mesh_vars
  /\ UNCHANGED petsc_vars
  /\ UNCHANGED point_vars

\* Save the graphs; return ERROR_SUCCESS or ERROR_FAILURE.
Finish ==
  /\ pc = "Finish"
  /\ ret' = IF success_test = 1 THEN ERROR_SUCCESS ELSE ERROR_FAILURE
  /\ pc' = "Returned"
  /\ UNCHANGED <<run, NEWTON_MAX_ITER, matrix_solver, linear_exact, space,
                 ref_space, coeff_vec, it, ndof, res_norm_squared, ec, as,
                 success_test, err_est_rel, err_exact_rel, msg, hist>>
  /\ UNCHANGED omp_vars
  /\ UNCHANGED mesh_vars
  /\ UNCHANGED petsc_vars
  /\ UNCHANGED point_vars

----------------------------------------------------------------------------
(* The add operations of the PETSc accumulators, called by several threads *)

Threads == 1 .. NumThreads

\* The accumulators the threads share: one PetscMatrix, two PetscVectors.
PetscMatrices == {"matrix"}
PetscVectors == {"rhs", "vec"}

\* #pragma omp critical (PetscMatrix_add), #pragma omp critical
\* (PetscVector_add): a named critical section excludes every other thread
\* from every section of the same name.
CriticalNames == {"PetscMatrix_add", "PetscVector_add"}

\* A thread that is in none of the add operations.
NoCall == [op |-> "none", acc |-> "none", at |-> "idle", v |-> 0, n |-> 0,
           i |-> 0]

\* The calls a thread can make: PetscMatrix::add(m, n, v) with v zero or
\* not, PetscVector::add(idx, y), PetscVector::add(n, idx, y) and
\* PetscVector::add_vector(vec), whose loop runs over get_size() entries.
Calls ==
  { [op |-> "PetscMatrix::add", acc |-> a, at |-> "body", v |-> v, n |-> 0,
     i |-> 0] : a \in PetscMatrices, v \in {0, 1} }
  \cup
  { [op |-> "PetscVector::add", acc |-> a, at |-> "body", v |-> 1, n |-> 0,
     i |-> 0] : a \in PetscVectors }
  \cup
  { [op |-> "PetscVector::add_n", acc |-> a, at |-> "body", v |-> 1,
     n |-> n, i |-> 0] : a \in PetscVectors, n \in 0 .. MaxEntries }
  \cup
  { [op |-> "PetscVector::add_vector", acc |-> a, at |-> "body", v |-> 1,
     n |-> MaxEntries, i |-> 0] : a \in PetscVectors }

\* A thread calls one of the add operations.
Call(t) ==
  /\ thread[t] = NoCall
  /\ \E c \in Calls : thread' = [thread EXCEPT ![t] = c]
  /\ UNCHANGED critical
  /\ UNCHANGED main_vars
  /\ UNCHANGED mesh_vars
  /\ UNCHANGED petsc_vars
  /\ UNCHANGED point_vars

\* PetscMatrix::add: if (v != 0.0) { #pragma omp critical (PetscMatrix_add)
\* MatSetValue(..., ADD_VALUES); }
PetscMatrix_add(t) ==
  /\ thread[t].op = "PetscMatrix::add"
  /\ thread[t].at = "body"
  /\ thread' = [thread EXCEPT ![t] =
                  IF thread[t].v # 0
                  THEN [@ EXCEPT !.at = "PetscMatrix_add"]
                  ELSE NoCall]
  /\ UNCHANGED critical
  /\ UNCHANGED main_vars
  /\ UNCHANGED mesh_vars
  /\ UNCHANGED petsc_vars
  /\ UNCHANGED point_vars

\* PetscVector::add(idx, y): #pragma omp critical (PetscVector_add)
\* VecSetValue(vec, idx, to_petsc(y), ADD_VALUES);
PetscVector_add(t) ==
  /\ thread[t].op = "PetscVector::add"
  /\ thread[t].at = "body"
  /\ thread' = [thread EXCEPT ![t].at = "PetscVector_add"]
  /\ UNCHANGED critical
  /\ UNCHANGED main_vars
  /\ UNCHANGED mesh_vars
  /\ UNCHANGED petsc_vars
  /\ UNCHANGED point_vars

\* PetscVector::add(n, idx, y): for (i = 0; i < n; i++)
\* VecSetValue(vec, idx[i], to_petsc(y[i]), ADD_VALUES);
PetscVector_add_n_At(t) ==
  IF thread[t].i < thread[t].n
  THEN [thread[t] EXCEPT !.at = "SetValue"]
  ELSE NoCall

PetscVector_add_n(t) ==
  /\ thread[t].op = "PetscVector::add_n"
  /\ thread[t].at = "body"
  /\ thread' = [thread EXCEPT ![t] = PetscVector_add_n_At(t)]
  /\ UNCHANGED critical
  /\ UNCHANGED main_vars
  /\ UNCHANGED mesh_vars
  /\ UNCHANGED petsc_vars
  /\ UNCHANGED point_vars

\* PetscVector::add_vector (both overloads): for (i = 0; i < get_size();
\* i++) this->add(i, ...);  each call is PetscVector::add(idx, y).
add_vector(t) ==
  /\ thread[t].op = "PetscVector::add_vector"
  /\ thread[t].at = "body"
  /\ thread' = [thread EXCEPT ![t] =
                  IF thread[t].i < thread[t].n
                  THEN [@ EXCEPT !.at = "PetscVector_add"]
                  ELSE NoCall]
  /\ UNCHANGED critical
  /\ UNCHANGED main_vars
  /\ UNCHANGED mesh_vars
  /\ UNCHANGED petsc_vars
  /\ UNCHANGED point_vars

\* A thread enters the named critical section it stands at, once no thread
\* is inside a section of that name.
EnterCritical(t) ==
  /\ thread[t].at \in CriticalNames
  /\ critical[thread[t].at] = 0
  /\ critical' = [critical EXCEPT ![thread[t].at] = t]
  /\ thread' = [thread EXCEPT ![t].at = "SetValue"]
  /\ UNCHANGED main_vars
  /\ UNCHANGED mesh_vars
  /\ UNCHANGED petsc_vars
  /\ UNCHANGED point_vars

\* MatSetValue / VecSetValue with ADD_VALUES returns; the critical section,
\* if the thread is in one, ends with it.  The single adds return, the
\* loops go on with the next entry.
SetValueReturns(t) ==
  /\ thread[t].at = "SetValue"
  /\ critical' = [c \in CriticalNames |->
                    IF critical[c] = t THEN 0 ELSE critical[c]]
  /\ thread' = [thread EXCEPT ![t] =
                  IF thread[t].op \in {"PetscVector::add_n",
                                       "PetscVector::add_vector"}
                  THEN [@ EXCEPT !.at = "body", !.i = @ + 1]
                  ELSE NoCall]
  /\ UNCHANGED main_vars
  /\ UNCHANGED mesh_vars
  /\ UNCHANGED petsc_vars
  /\ UNCHANGED point_vars

----------------------------------------------------------------------------
(* The Space, element by element *)

\* Lengths are counted in units of 2^-MaxRefinements, so that an element of
\* the initial Space can be halved MaxRefinements times.
Scale == 2 ^ MaxRefinements

\* double A = -1, B = 1;
A == (0 - 1) * Scale
B == 1 * Scale

\* The kind of boundary condition at one end of the domain.
BoundaryKinds == {"Dirichlet", "Neumann"}

\* ADAPT_TYPE: 0 hp-adaptivity, 1 h-adaptivity, 2 p-adaptivity.
AdaptTypes == {0, 1, 2}

\* THRESHOLD in tenths: 0.7, and 1.0.
Thresholds == {7, 10}

\* The errors calc_err_est can store for an element.
ElemErrors == {0, 3, 4}

\* The outcomes of comparing, for one element, the error reduction of
\* raising its degree with that of splitting it.
Comparisons == {"p", "h", "tie"}

NoMesh == [elems |-> <<>>, bc |-> <<"none", "none">>, ndof |-> 0,
           n_ref |-> 0]

NoAdaptCall == [adapt_type |-> NoValue, threshold |-> 0, err |-> <<>>,
                better |-> <<>>]

\* An active Element on [lo, hi] of degree p, without children; its p + 1
\* local coefficients are not numbered yet.
Element(lo, hi, p) ==
  [lo |-> lo, hi |-> hi, p |-> p, active |-> TRUE, sons |-> <<>>,
   dof |-> <<>>]

\* The active Elements below (or at) Element i, left to right.
RECURSIVE ActiveBelow(_, _)
ActiveBelow(elems, i) ==
  IF elems[i].active THEN <<i>>
  ELSE IF elems[i].sons = <<>> THEN <<>>
  ELSE ActiveBelow(elems, elems[i].sons[1])
       \o ActiveBelow(elems, elems[i].sons[2])

RECURSIVE ActiveFrom(_, _)
ActiveFrom(elems, k) ==
  IF k > NELEM THEN <<>>
  ELSE ActiveBelow(elems, k) \o ActiveFrom(elems, k + 1)

\* The active Elements of a Space in domain order: the Elements the Space
\* was created with are 1 .. NELEM, left to right.
ActiveElements(elems) == ActiveFrom(elems, 1)

ActiveSet(elems) == {i \in 1 .. Len(elems) : elems[i].active}

get_n_active_elem(m) == Len(ActiveElements(m.elems))

\* Local coefficient j of the k-th of n active Elements is fixed by a
\* Dirichlet condition: the coefficient of the left end of the first
\* Element, of the right end of the last.
Constrained(j, k, n, bc) ==
  \/ k = 1 /\ j = 1 /\ bc[1] = "Dirichlet"
  \/ k = n /\ j = 2 /\ bc[2] = "Dirichlet"

FreeCoefficients(p, k, n, bc) ==
  {j \in 1 .. p + 1 : ~Constrained(j, k, n, bc)}

\* The global indices of the local coefficients of one Element: increasing
\* from count on, NoValue for a fixed coefficient.
LocalDofs(p, k, n, bc, count) ==
  [j \in 1 .. p + 1 |->
     IF j \in FreeCoefficients(p, k, n, bc)
     THEN count + Cardinality({x \in FreeCoefficients(p, k, n, bc) : x < j})
     ELSE NoValue]

RECURSIVE AssignFrom(_, _, _, _, _)
AssignFrom(elems, seq, bc, k, count) ==
  IF k > Len(seq) THEN [elems |-> elems, ndof |-> count]
  ELSE AssignFrom(
         [elems EXCEPT ![seq[k]].dof =
            LocalDofs(elems[seq[k]].p, k, Len(seq), bc, count)],
         seq, bc, k + 1,
         count + Cardinality(FreeCoefficients(elems[seq[k]].p, k, Len(seq),
                                              bc)))

\* A numbering that goes on from the count of the call before.
FirstIndex_Continued(m) == m.ndof

\* The numbering starts at 0 in every call.
FirstIndex(m) == 0

\* assign_dofs(): walks the active Elements left to right, gives every free
\* local coefficient the next global index and returns the number of free
\* coefficients (kept in the Space as its dof count).
assign_dofs(m) ==
  LET r == AssignFrom(m.elems, ActiveElements(m.elems), m.bc, 1,
                      FirstIndex(m))
  IN  [m EXCEPT !.elems = r.elems, !.ndof = r.ndof]

\* Space(A, B, NELEM, P_init, NEQ) with the boundary conditions bc, after
\* assign_dofs(): NELEM Elements of equal length and degree P_init.
InitialMesh(bc) ==
  assign_dofs(
    [elems |-> [k \in 1 .. NELEM |->
                  Element(A + (k - 1) * ((B - A) \div NELEM),
                          A + k * ((B - A) \div NELEM), P_init)],
     bc |-> bc, ndof |-> 0, n_ref |-> 0])

\* A split that cuts at the left end.
Midpoint_LeftEnd(e) == e.lo

Midpoint(e) == (e.lo + e.hi) \div 2

\* h-refinement of Element i: it becomes inactive and gets two children of
\* half its length and of its degree.
Split(elems, i) ==
  [elems EXCEPT ![i].active = FALSE,
                ![i].sons = <<Len(elems) + 1, Len(elems) + 2>>]
  \o <<Element(elems[i].lo, Midpoint(elems[i]), elems[i].p),
       Element(Midpoint(elems[i]), elems[i].hi, elems[i].p)>>

\* p-refinement of Element i: its degree rises by one.
RaiseDegree(elems, i) == [elems EXCEPT ![i].p = @ + 1]

\* max_error = max(error_array) over the active Elements.
MaxError(elems, c) ==
  CHOOSE x \in {c.err[i] : i \in ActiveSet(elems)} :
    \A i \in ActiveSet(elems) : c.err[i] <= x

\* A selection of the Elements whose error is above threshold * max_error.
IsCandidate_Above(c, i, max_error) ==
  c.err[i] * 10 > c.threshold * max_error

\* error_array[e] >= threshold * max_error (the threshold is in tenths).
IsCandidate(c, i, max_error) ==
  c.err[i] * 10 >= c.threshold * max_error

Candidates(elems, c) ==
  LET max_error == MaxError(elems, c)
  IN  {i \in ActiveSet(elems) : IsCandidate(c, i, max_error)}

\* An hp choice that splits on a tie.
RefinementOf_TieSplits(c, i) ==
  CASE c.adapt_type = 1 -> "h"
    [] c.adapt_type = 2 -> "p"
    [] OTHER -> IF c.better[i] = "p" THEN "p" ELSE "h"

\* The refinement of a candidate: h-only splits, p-only raises the degree,
\* hp takes what reduces the error better and, on a tie, raises the degree.
RefinementOf(c, i) ==
  CASE c.adapt_type = 1 -> "h"
    [] c.adapt_type = 2 -> "p"
    [] OTHER -> IF c.better[i] = "h" THEN "h" ELSE "p"

RECURSIVE RefineFrom(_, _, _, _, _)
RefineFrom(elems, seq, cand, c, k) ==
  IF k > Len(seq) THEN elems
  ELSE IF seq[k] \notin cand THEN RefineFrom(elems, seq, cand, c, k + 1)
  ELSE IF RefinementOf(c, seq[k]) = "h"
  THEN RefineFrom(Split(elems, seq[k]), seq, cand, c, k + 1)
  ELSE RefineFrom(RaiseDegree(elems, seq[k]), seq, cand, c, k + 1)

\* adapt(norm, adapt_type, threshold, err_array, space, ref_space): refines
\* the candidates and renumbers the degrees of freedom.
adapt_mesh(m, c) ==
  assign_dofs(
    [m EXCEPT !.elems = RefineFrom(m.elems, ActiveElements(m.elems),
                                   Candidates(m.elems, c), c, 1),
              !.n_ref = @ + Cardinality(Candidates(m.elems, c))])

\* A reference refinement that copies the Element as it is.
RefineForReference_Copy(elems, i, t) == elems

\* The reference refinement of one Element under the policy t: split it
\* (h), raise its degree (p), or split it and raise the degree of both
\* children (hp).
RefineForReference(elems, i, t) ==
  CASE t = 1 -> Split(elems, i)
    [] t = 2 -> RaiseDegree(elems, i)
    [] OTHER -> RaiseDegree(RaiseDegree(Split(elems, i), Len(elems) + 1),
                            Len(elems) + 2)

RECURSIVE RefineAllFrom(_, _, _, _)
RefineAllFrom(elems, seq, t, k) ==
  IF k > Len(seq) THEN elems
  ELSE RefineAllFrom(RefineForReference(elems, seq[k], t), seq, t, k + 1)

\* construct_refined_space(space): a new Space in which every active
\* Element of the coarse Space is refined.
construct_refined_mesh(m, t) ==
  assign_dofs(
    [m EXCEPT !.elems = RefineAllFrom(m.elems, ActiveElements(m.elems), t,
                                      1)])

\* The adapt calls that can be made on a Space, before the two refinements
\* of a candidate are compared.
AdaptCalls(m) ==
  { [adapt_type |-> t, threshold |-> th, err |-> e,
     better |-> [i \in ActiveSet(m.elems) |-> "tie"]] :
      t \in AdaptTypes, th \in Thresholds,
      e \in [ActiveSet(m.elems) -> ElemErrors] }

\* The call c with the outcomes of the comparisons, which an hp call makes
\* for its candidates.
Compared(m, c) ==
  IF c.adapt_type # 0 THEN {c}
  ELSE LET cand == Candidates(m.elems, c)
       IN  { [c EXCEPT !.better = [i \in ActiveSet(m.elems) |->
                                     IF i \in cand THEN b[i] ELSE "tie"]] :
               b \in [cand -> Comparisons] }

\* ref_space = construct_refined_space(space)
MeshConstructRefinedSpace ==
  /\ call = NoAdaptCall
  /\ ref_mesh = NoMesh
  /\ \E t \in AdaptTypes : ref_mesh' = construct_refined_mesh(mesh, t)
  /\ UNCHANGED <<mesh, call>>
  /\ UNCHANGED main_vars
  /\ UNCHANGED omp_vars
  /\ UNCHANGED petsc_vars
  /\ UNCHANGED point_vars

\* adapt is called with an error array, a threshold and an adaptivity type.
MeshCallAdapt ==
  /\ call = NoAdaptCall
  /\ ref_mesh # NoMesh
  /\ \E c \in AdaptCalls(mesh) :
       /\ mesh.n_ref + Cardinality(Candidates(mesh.elems, c))
            <= MaxRefinements
       /\ \E d \in Compared(mesh, c) : call' = d
  /\ UNCHANGED <<mesh, ref_mesh>>
  /\ UNCHANGED main_vars
  /\ UNCHANGED omp_vars
  /\ UNCHANGED petsc_vars
  /\ UNCHANGED point_vars

\* adapt returns; the caller deletes the reference Space.
MeshAdapt ==
  /\ call # NoAdaptCall
  /\ mesh' = adapt_mesh(mesh, call)
  /\ ref_mesh' = NoMesh
  /\ call' = NoAdaptCall
  /\ UNCHANGED main_vars
  /\ UNCHANGED omp_vars
  /\ UNCHANGED petsc_vars
  /\ UNCHANGED point_vars

\* assign_dofs() is called again on a Space whose structure has not changed.
MeshAssignDofs ==
  /\ call = NoAdaptCall
  /\ mesh' = assign_dofs(mesh)
  /\ UNCHANGED <<ref_mesh, call>>
  /\ UNCHANGED main_vars
  /\ UNCHANGED omp_vars
  /\ UNCHANGED petsc_vars
  /\ UNCHANGED point_vars

----------------------------------------------------------------------------
(* The PETSc wrappers, used by one thread *)

Slots == 1 .. MaxObjects

WrapperKinds == {"PetscMatrix", "PetscVector", "PetscLinearMatrixSolver"}

\* The wrappers that hold a Mat or a Vec.
Accumulators == {"PetscMatrix", "PetscVector"}

\* A slot that holds no object.  Of an object, inited is its flag and
\* handle tells whether its member matrix / vec is a live PETSc handle.
NoWrapper == [kind |-> "none", inited |-> FALSE, handle |-> FALSE]

NoOutcome == [op |-> "none", kind |-> "none", threw |-> FALSE]

\* PetscMatrix(), PetscVector(): inited = false; add_petsc_object();
\* PetscLinearMatrixSolver(mat, rhs): add_petsc_object().  An exception
\* leaves no object behind.
Construct(i, k) ==
  /\ wrapper[i] = NoWrapper
  /\ LET r == add_petsc_object(Runtime)
     IN  /\ num_petsc_objects' = r.num_petsc_objects
         /\ petsc' = r.petsc
         /\ wrapper' = IF r.threw THEN wrapper
                       ELSE [wrapper EXCEPT ![i] =
                               [kind |-> k, inited |-> FALSE,
                                handle |-> FALSE]]
         /\ outcome' = [op |-> "construct", kind |-> k, threw |-> r.threw]
  /\ UNCHANGED handles
  /\ UNCHANGED main_vars
  /\ UNCHANGED omp_vars
  /\ UNCHANGED mesh_vars
  /\ UNCHANGED point_vars

\* free(): if (inited) MatDestroy(&matrix) / VecDestroy(&vec);
\* inited = false;
free(w) ==
  [w EXCEPT !.inited = FALSE, !.handle = IF w.inited THEN FALSE ELSE @]

\* The handles free() destroys.
FreedBy(w) == IF w.inited /\ w.handle THEN 1 ELSE 0

\* PetscMatrix::free(), PetscVector::free()
Free(i) ==
  /\ wrapper[i].kind \in Accumulators
  /\ wrapper' = [wrapper EXCEPT ![i] = free(@)]
  /\ handles' = handles - FreedBy(wrapper[i])
  /\ outcome' = [op |-> "free", kind |-> wrapper[i].kind, threw |-> FALSE]
  /\ UNCHANGED <<num_petsc_objects, petsc>>
  /\ UNCHANGED main_vars
  /\ UNCHANGED omp_vars
  /\ UNCHANGED mesh_vars
  /\ UNCHANGED point_vars

\* PetscMatrix::alloc(): MatCreateSeqAIJ(..., &matrix); inited = true;
\* PetscVector::alloc(n): free(); VecCreateSeq(..., &vec); inited = true;
alloc(w) ==
  IF w.kind = "PetscVector"
  THEN [free(w) EXCEPT !.handle = TRUE, !.inited = TRUE]
  ELSE [w EXCEPT !.handle = TRUE, !.inited = TRUE]

Alloc(i) ==
  /\ wrapper[i].kind \in Accumulators
  /\ handles < MaxHandles
  /\ wrapper' = [wrapper EXCEPT ![i] = alloc(@)]
  /\ handles' = handles + 1
                  - (IF wrapper[i].kind = "PetscVector"
                     THEN FreedBy(wrapper[i]) ELSE 0)
  /\ outcome' = [op |-> "alloc", kind |-> wrapper[i].kind, threw |-> FALSE]
  /\ UNCHANGED <<num_petsc_objects, petsc>>
  /\ UNCHANGED main_vars
  /\ UNCHANGED omp_vars
  /\ UNCHANGED mesh_vars
  /\ UNCHANGED point_vars

\* PetscMatrix::create(size, nnz, ap, ai, ax):
\* MatCreateSeqAIJWithArrays(..., &matrix); the flag inited is not written.
create(w) == [w EXCEPT !.handle = TRUE]

Create(i) ==
  /\ wrapper[i].kind = "PetscMatrix"
  /\ handles < MaxHandles
  /\ wrapper' = [wrapper EXCEPT ![i] = create(@)]
  /\ handles' = handles + 1
  /\ outcome' = [op |-> "create", kind |-> wrapper[i].kind, threw |-> FALSE]
  /\ UNCHANGED <<num_petsc_objects, petsc>>
  /\ UNCHANGED main_vars
  /\ UNCHANGED omp_vars
  /\ UNCHANGED mesh_vars
  /\ UNCHANGED point_vars

\* PetscMatrix::duplicate(), called on a matrix that holds a handle:
\* new PetscMatrix(); MatDuplicate(matrix, ..., &(ptscmatrix->matrix));
\* the flag inited of the new object stays false.
Duplicate(i, j) ==
  /\ wrapper[i].kind = "PetscMatrix"
  /\ wrapper[i].handle
  /\ wrapper[j] = NoWrapper
  /\ handles < MaxHandles
  /\ LET r == add_petsc_object(Runtime)
     IN  /\ num_petsc_objects' = r.num_petsc_objects
         /\ petsc' = r.petsc
         /\ wrapper' = IF r.threw THEN wrapper
                       ELSE [wrapper EXCEPT ![j] =
                               [kind |-> "PetscMatrix", inited |-> FALSE,
                                handle |-> TRUE]]
         /\ handles' = IF r.threw THEN handles ELSE handles + 1
         /\ outcome' = [op |-> "duplicate", kind |-> "PetscMatrix",
                        threw |-> r.threw]
  /\ UNCHANGED main_vars
  /\ UNCHANGED omp_vars
  /\ UNCHANGED mesh_vars
  /\ UNCHANGED point_vars

\* ~PetscMatrix(), ~PetscVector(): free(); remove_petsc_object();
\* ~PetscLinearMatrixSolver(): remove_petsc_object().
Destruct(i) ==
  /\ wrapper[i] # NoWrapper
  /\ LET r == remove_petsc_object(Runtime)
     IN  /\ num_petsc_objects' = r.num_petsc_objects
         /\ petsc' = r.petsc
  /\ wrapper' = [wrapper EXCEPT ![i] = NoWrapper]
  /\ handles' = IF wrapper[i].kind \in Accumulators
                THEN handles - FreedBy(wrapper[i]) ELSE handles
  /\ outcome' = [op |-> "destruct", kind |-> wrapper[i].kind,
                 threw |-> FALSE]
  /\ UNCHANGED main_vars
  /\ UNCHANGED omp_vars
  /\ UNCHANGED mesh_vars
  /\ UNCHANGED point_vars

----------------------------------------------------------------------------
(* The initial condition of the heat-transfer tutorial *)

\* Coordinates are whole numbers; values and derivatives are counted in
\* hundredths, so that (x+10)*(y+10)/100. is (x+10)*(y+10) hundredths and
\* (y+10)/10. is 10*(y+10) hundredths.
Coords == (0 - MaxCoord) .. MaxCoord

\* InitialSolutionHeatTransfer::value: return (x+10)*(y+10)/100.;
value(x, y) == (x + 10) * (y + 10)

\* InitialSolutionHeatTransfer::derivatives: dx = (y+10)/10.;
\* dy = (x+10)/10.;
derivatives(x, y) == [dx |-> 10 * (y + 10), dy |-> 10 * (x + 10)]

NoPoint == [x |-> 0, y |-> 0, called |-> {}, value |-> 0, dx |-> 0,
            dy |-> 0]

\* value(x, y) is called at the point.
CallValue ==
  /\ "value" \notin point.called
  /\ point' = [point EXCEPT !.called = @ \cup {"value"},
                            !.value = value(point.x, point.y)]
  /\ UNCHANGED main_vars
  /\ UNCHANGED omp_vars
  /\ UNCHANGED mesh_vars
  /\ UNCHANGED petsc_vars

\* derivatives(x, y, dx, dy) is called at the point.
CallDerivatives ==
  /\ "derivatives" \notin point.called
  /\ point' = [point EXCEPT !.called = @ \cup {"derivatives"},
                            !.dx = derivatives(point.x, point.y).dx,
                            !.dy = derivatives(point.x, point.y).dy]
  /\ UNCHANGED main_vars
  /\ UNCHANGED omp_vars
  /\ UNCHANGED mesh_vars
  /\ UNCHANGED petsc_vars

----------------------------------------------------------------------------
(* The program *)

\* No PETSc object has been constructed yet.
PetscParked ==
  /\ num_petsc_objects = 0
  /\ petsc = NoPetsc
  /\ wrapper = [i \in Slots |-> NoWrapper]
  /\ handles = 0
  /\ outcome = NoOutcome

\* main() up to the first Newton loop: the coarse Space is built, the
\* weak form and the discrete problem are set up.
Init ==
  /\ pc = "Initializing"
  /\ run = "coarse_init"
  /\ NEWTON_MAX_ITER \in 1 .. MaxNewtonIter
  /\ matrix_solver \in Backends
  /\ linear_exact \in BOOLEAN
  /\ space = InitialSpace
  /\ ref_space = NoSpace
  /\ coeff_vec = NoVec
  /\ it = NoValue
  /\ ndof = NoValue
  /\ res_norm_squared = NoValue
  /\ ec = 0
  /\ as = 1
  /\ success_test = 1
  /\ err_est_rel = NoValue
  /\ err_exact_rel = NoValue
  /\ msg = ""
  /\ ret = NotReturned
  /\ hist = [n_assemble |-> 0, n_solve |-> 0, F |-> 0, n_adapt |-> 0,
             n_ref_spaces |-> 0, ref_conv |-> 0, coarse_conv |-> 0,
             est |-> 0, adapt |-> 0, stop |-> "none", frac |-> NoValue,
             solve_ok |-> TRUE, first_adapt |-> "none",
             exact2 |-> NoValue]
  /\ thread = [t \in Threads |-> NoCall]
  /\ critical = [c \in CriticalNames |-> 0]
  /\ mesh = InitialMesh(<<"Dirichlet", "Dirichlet">>)
  /\ ref_mesh = NoMesh
  /\ call = NoAdaptCall
  /\ PetscParked
  /\ point = NoPoint

Next ==
  \/ NewtonInit
  \/ Assemble
  \/ CheckConverged
  \/ LinearSolve
  \/ Update
  \/ NewtonExit
  \/ ConstructRefinedSpace
  \/ CalcErrEst
  \/ CalcErrExact
  \/ Decide
  \/ Adapt
  \/ Finish

Spec == Init /\ [][Next]_vars

\* main() at its start, when it is not main() that runs.
MainParked ==
  /\ pc = "Initializing"
  /\ run = "coarse_init"
  /\ NEWTON_MAX_ITER = MaxNewtonIter
  /\ matrix_solver = "SOLVER_PETSC"
  /\ linear_exact = TRUE
  /\ space = InitialSpace
  /\ ref_space = NoSpace
  /\ coeff_vec = NoVec
  /\ it = NoValue
  /\ ndof = NoValue
  /\ res_norm_squared = NoValue
  /\ ec = 0
  /\ as = 1
  /\ success_test = 1
  /\ err_est_rel = NoValue
  /\ err_exact_rel = NoValue
  /\ msg = ""
  /\ ret = NotReturned
  /\ hist = [n_assemble |-> 0, n_solve |-> 0, F |-> 0, n_adapt |-> 0,
             n_ref_spaces |-> 0, ref_conv |-> 0, coarse_conv |-> 0,
             est |-> 0, adapt |-> 0, stop |-> "none", frac |-> NoValue,
             solve_ok |-> TRUE, first_adapt |-> "none",
             exact2 |-> NoValue]

\* The threads of one assembly pass; main() itself waits for them.
AddInit ==
  /\ MainParked
  /\ thread = [t \in Threads |-> NoCall]
  /\ critical = [c \in CriticalNames |-> 0]
  /\ mesh = InitialMesh(<<"Dirichlet", "Dirichlet">>)
  /\ ref_mesh = NoMesh
  /\ call = NoAdaptCall
  /\ PetscParked
  /\ point = NoPoint

AddNext ==
  \/ \E t \in Threads : Call(t)
  \/ \E t \in Threads : PetscMatrix_add(t)
  \/ \E t \in Threads : PetscVector_add(t)
  \/ \E t \in Threads : PetscVector_add_n(t)
  \/ \E t \in Threads : add_vector(t)
  \/ \E t \in Threads : EnterCritical(t)
  \/ \E t \in Threads : SetValueReturns(t)

AddSpec == AddInit /\ [][AddNext]_vars

\* A Space under construct_refined_space, adapt and assign_dofs, for every
\* boundary configuration.
MeshInit ==
  /\ MainParked
  /\ thread = [t \in Threads |-> NoCall]
  /\ critical = [c \in CriticalNames |-> 0]
  /\ \E bc \in BoundaryKinds \X BoundaryKinds : mesh = InitialMesh(bc)
  /\ ref_mesh = NoMesh
  /\ call = NoAdaptCall
  /\ PetscParked
  /\ point = NoPoint

MeshNext ==
  \/ MeshConstructRefinedSpace
  \/ MeshCallAdapt
  \/ MeshAdapt
  \/ MeshAssignDofs

MeshSpec == MeshInit /\ [][MeshNext]_vars

\* The Space and the threads at their start, when it is not they that run.
OthersParked ==
  /\ MainParked
  /\ thread = [t \in Threads |-> NoCall]
  /\ critical = [c \in CriticalNames |-> 0]
  /\ mesh = InitialMesh(<<"Dirichlet", "Dirichlet">>)
  /\ ref_mesh = NoMesh
  /\ call = NoAdaptCall

\* A program that constructs, uses and destroys PETSc wrappers, one
\* operation after the other.
PetscInit ==
  /\ OthersParked
  /\ PetscParked
  /\ point = NoPoint

PetscNext ==
  \/ \E i \in Slots : \E k \in WrapperKinds : Construct(i, k)
  \/ \E i \in Slots : Alloc(i)
  \/ \E i \in Slots : Create(i)
  \/ \E i, j \in Slots : Duplicate(i, j)
  \/ \E i \in Slots : Free(i)
  \/ \E i \in Slots : Destruct(i)

PetscSpec == PetscInit /\ [][PetscNext]_vars

\* The initial condition is evaluated at any point of the grid.
PointInit ==
  /\ OthersParked
  /\ PetscParked
  /\ \E x \in Coords : \E y \in Coords :
       point = [NoPoint EXCEPT !.x = x, !.y = y]

PointNext ==
  \/ CallValue
  \/ CallDerivatives

PointSpec == PointInit /\ [][PointNext]_vars

----------------------------------------------------------------------------
(* Properties *)

TolSquared == NEWTON_TOL * NEWTON_TOL

DivergenceMsg == "Newton method did not converge."
SolverMsg == "Matrix solver failed."

\* C1: a Newton loop is left through its break (Converged) only with a
\* squared residual norm below the squared tolerance and with it > 1, after
\* at least one linear solve and one update of the coefficient vector.
C1_ConvergedOnlyAfterFullIteration ==
  pc = "Converged" =>
    /\ res_norm_squared < TolSquared
    /\ it > 1
    /\ hist.n_solve >= 1
    /\ coeff_vec.n >= 1

\* The coarse loop of a later adaptivity step is left through its break.
C1_Witness ==
  pc = "Converged" /\ run = "coarse" /\ as = 2 /\ res_norm_squared = 0

\* C2: a step in which solve() reports failure ends the program in Failed
\* with the solver message and leaves the coefficient vector and both Spaces
\* as they were; nothing is assembled, estimated or adapted in or after it
\* (no step is taken after it at all).
C2_SolveFailureIsFatal ==
  [][ ~hist'.solve_ok =>
        /\ hist.solve_ok
        /\ pc = "LinearSolve"
        /\ pc' = "Failed"
        /\ msg' = SolverMsg
        /\ coeff_vec' = coeff_vec
        /\ space' = space
        /\ ref_space' = ref_space
        /\ hist'.n_assemble = hist.n_assemble
        /\ hist'.est = hist.est
        /\ hist'.n_adapt = hist.n_adapt ]_vars

\* solve() has reported failure in the second iteration of a reference loop.
C2_Witness ==
  /\ ~hist.solve_ok
  /\ pc = "Failed"
  /\ run = "ref"
  /\ it = 2

\* C3: whenever KSPSolve returns a nonzero error code, the Newton loop that
\* called PetscLinearMatrixSolver::solve is in Failed.
C3_PetscFailureIsSignalled ==
  (matrix_solver = "SOLVER_PETSC" /\ ec # 0) => pc = "Failed"

\* C4: a Newton loop ends with the divergence error only if the residual of
\* its current coefficient vector does not meet the tolerance.
C4_DivergedOnlyAboveTolerance ==
  (pc = "Failed" /\ msg = DivergenceMsg) => hist.F >= TolSquared

NewtonRunning ==
  pc \in {"Assembling", "CheckConverged", "LinearSolve", "Update"}

\* The number of steps a running Newton loop can still take at most: four
\* per iteration that is left, and the rest of the current one.  It is 0
\* outside a running loop.
NewtonRank ==
  IF NewtonRunning
  THEN 4 * (NEWTON_MAX_ITER - it)
       + (CASE pc = "Assembling" -> 4
            [] pc = "CheckConverged" -> 3
            [] pc = "LinearSolve" -> 2
            [] pc = "Update" -> 1)
  ELSE 0

\* C5: a Newton loop has assembled at most NEWTON_MAX_ITER times and solved
\* at most NEWTON_MAX_ITER times, and it terminates in Converged or Failed:
\* while it runs it can always take a step, and every step of it lowers
\* NewtonRank, which is at least 1 while the loop runs.

C5_NewtonRunTerminates ==
  /\ [](/\ hist.n_assemble <= NEWTON_MAX_ITER
        /\ hist.n_solve <= NEWTON_MAX_ITER
        /\ (NewtonRunning => NewtonRank >= 1 /\ ENABLED Next))
  /\ [][NewtonRunning => NewtonRank' < NewtonRank]_vars

\* A loop has used up all its iterations: NEWTON_MAX_ITER assemblies and
\* NEWTON_MAX_ITER solves, none of which met the tolerance.
C5_Witness ==
  /\ pc = "Failed"
  /\ msg = DivergenceMsg
  /\ NEWTON_MAX_ITER = MaxNewtonIter
  /\ hist.n_assemble = NEWTON_MAX_ITER
  /\ hist.n_solve = NEWTON_MAX_ITER
  /\ hist.F >= TolSquared

\* C6: at Converged the elements of the loop's Space hold the loop's
\* coefficient vector, and the number of dofs read in an iteration is the
\* length with which the coefficient vector was allocated.
C6_ConvergedSpaceHoldsCoefficients ==
  /\ pc = "Converged" => RunSpace.coeffs = coeff_vec.n
  /\ pc \in {"CheckConverged", "LinearSolve", "Update", "Converged"} =>
       ndof = coeff_vec.len

\* A reference loop has converged after an update.
C6_Witness ==
  pc = "Converged" /\ run = "ref" /\ coeff_vec.n = 1 /\ ndof = coeff_vec.len

\* C7: for a linear problem that is solved exactly, every Newton loop
\* reaches Converged after exactly one linear solve, whatever
\* NEWTON_MAX_ITER >= 1 is.
C7_LinearConvergesInOneSolve ==
  linear_exact =>
    /\ pc # "Failed"
    /\ hist.n_solve <= 1
    /\ (pc = "Converged" => hist.n_solve = 1)

\* C8: calc_err_est runs only after the reference loop (and from step 2 on
\* the coarse loop) of the same step has converged and been cleaned up;
\* adapt runs only after calc_err_est of the same step; a reference Space
\* is constructed only in step 1 or after adapt of the step before.
C8_PhasesOrdered ==
  [][ /\ (hist'.est # hist.est =>
            /\ hist.ref_conv = as
            /\ (as > 1 => hist.coarse_conv = as)
            /\ coeff_vec = NoVec)
      /\ (hist'.n_adapt # hist.n_adapt => hist.est = as)
      /\ (hist'.n_ref_spaces # hist.n_ref_spaces =>
            (as = 1 \/ hist.adapt = as - 1)) ]_vars

\* The error of step 2 has been estimated, after both loops of step 2.
C8_Witness ==
  /\ hist.est = 2
  /\ hist.ref_conv = 2
  /\ hist.coarse_conv = 2
  /\ hist.n_ref_spaces = 2
  /\ pc = "Adapt"

\* The positions of main() between the Newton loops.
AdaptivityPcs ==
  {"Initializing", "Converged", "ConstructRefinedSpace", "CalcErrEst",
   "CalcErrExact", "Decide", "Adapt", "Finish"}

\* C9: the adaptivity loop runs at most MAX_ADAPT_STEP steps: adapt is
\* called at most MAX_ADAPT_STEP - 1 times, at most MAX_ADAPT_STEP reference
\* Spaces are constructed, the loop is left on tolerance only with an error
\* below it and on the step limit only in step MAX_ADAPT_STEP, it goes on
\* to adapt only below the step limit, and between the Newton loops the
\* program can always take a step.
C9_AdaptivityLoopBounded ==
  /\ (pc \in AdaptivityPcs => ENABLED Next)
  /\ as <= MAX_ADAPT_STEP
  /\ hist.n_adapt = as - 1
  /\ hist.n_adapt <= MAX_ADAPT_STEP - 1
  /\ hist.n_ref_spaces <= MAX_ADAPT_STEP
  /\ (hist.stop = "tolerance" => err_est_rel < TOL_ERR_REL)
  /\ (hist.stop = "step_limit" =>
        as = MAX_ADAPT_STEP /\ err_est_rel >= TOL_ERR_REL)
  /\ (pc = "Adapt" => as < MAX_ADAPT_STEP /\ err_est_rel >= TOL_ERR_REL)

\* The loop has been left at the step limit.
C9_Witness ==
  /\ pc = "Returned"
  /\ hist.stop = "step_limit"
  /\ hist.n_adapt = MAX_ADAPT_STEP - 1
  /\ hist.n_ref_spaces = MAX_ADAPT_STEP

\* Once the decision of a step is taken.
Decided == pc \in {"Adapt", "Finish", "Returned"}

\* C10 (as stated): the loop stops on tolerance exactly when the fraction
\* calc_err_est returned is below TOL_ERR_REL.
C10_StopsIffFractionBelowTol ==
  Decided => (hist.stop = "tolerance" <=> hist.frac < TOL_ERR_REL)

\* C10 (amended): the loop stops on tolerance exactly when 100 times the
\* fraction calc_err_est returned is below TOL_ERR_REL.
C10_StopsIffPercentBelowTol ==
  Decided => (hist.stop = "tolerance" <=> hist.frac * PERCENT < TOL_ERR_REL)

\* The loop has stopped on tolerance with a fraction just below
\* TOL_ERR_REL / 100.
C10_Witness ==
  /\ hist.stop = "tolerance"
  /\ hist.frac = 9999999
  /\ pc = "Finish"

\* The driver's view with the exact error and the verdict flag replaced by
\* any other values they can hold.
ExactVariants(d) ==
  { [d EXCEPT !.err_exact_rel = f * PERCENT, !.success_test = t] :
      f \in ErrExactFractions, t \in {0, 1} }

\* What a step decides: whether the loop is left, on which of the two
\* tests, and with which Spaces adapt is called.
AdaptivityDecision(d) ==
  [tolerance |-> StopOnToleranceIn(d),
   step_limit |-> StepLimitReachedIn(d),
   call |-> AdaptCallIn(d)]

\* C11: the values calc_err_exact returns never influence the adaptivity.
\* Whatever exact error and verdict flag a step holds when it decides, it
\* takes the same decision (leave on tolerance, leave on the step limit, or
\* call adapt with the same Spaces); and the step that computes the exact
\* error changes nothing but the exact error, the verdict flag and the
\* record of the exact error of step 2.  Two runs
\* that differ only in the exact errors so stay equal in everything else,
\* step by step.
C11_ExactErrorDoesNotSteer ==
  /\ [](pc \in {"Decide", "Adapt"} =>
         \A d \in ExactVariants(Driver) :
           AdaptivityDecision(d) = AdaptivityDecision(Driver))
  /\ [][pc = "CalcErrExact" =>
          /\ UNCHANGED <<run, space, ref_space, coeff_vec, as, err_est_rel,
                         msg, ret>>
          /\ [hist' EXCEPT !.exact2 = hist.exact2] = hist]_vars

\* Step 2 has failed the test on its exact error and goes on to adapt.
C11_Witness ==
  /\ pc = "Adapt"
  /\ as = 2
  /\ err_exact_rel > EXACT_TOL
  /\ success_test = 0

\* C12: the program returns ERROR_SUCCESS only if the first adapt call left
\* the coarse Space with exactly two active elements, the first and the last
\* both of degree 2 (both refinements of the first step were p-refinements).
C12_SuccessOnlyAfterPRefinements ==
  (ret = ERROR_SUCCESS /\ hist.n_adapt >= 1) => hist.first_adapt = "both_p"

\* C13: the program returns ERROR_SUCCESS only if the relative error against
\* the exact solution was computed in step 2, right after the first adapt
\* call, and was at most 1e-10.
C13_SuccessOnlyWithExactStepTwo ==
  ret = ERROR_SUCCESS =>
    /\ hist.exact2 # NoValue
    /\ hist.exact2 <= EXACT_TOL

\* C14: every reference Space that construct_refined_space created is
\* destroyed before its step ends, the step on which the loop stops
\* included: once the loop is left, and when main() returns, no reference
\* Space is alive and as many have been destroyed as were created.
C14_NoRefSpaceAliveAfterLoop ==
  pc \in {"Finish", "Returned"} =>
    /\ ref_space = NoSpace
    /\ hist.n_ref_spaces = hist.n_adapt

\* A thread is inside MatSetValue or VecSetValue with ADD_VALUES on the
\* accumulator a.
InSetValue(t, a) == thread[t].at = "SetValue" /\ thread[t].acc = a

\* C15: no two threads are ever inside MatSetValue / VecSetValue with
\* ADD_VALUES on the same accumulator at once, whichever of
\* PetscMatrix::add, PetscVector::add (one entry), PetscVector::add (n
\* entries) and add_vector they execute.
C15_AddsSerialized ==
  \A a \in PetscMatrices \cup PetscVectors :
    \A t1, t2 \in Threads :
      (InSetValue(t1, a) /\ InSetValue(t2, a)) => t1 = t2

\* What adapt can change of an Element: its interval, its degree, whether
\* it is active, and its children.
Structure(e) ==
  [lo |-> e.lo, hi |-> e.hi, p |-> e.p, active |-> e.active,
   sons |-> e.sons]

\* The Elements of before the adapt call that returns in this step whose
\* structure the call changes.
Refined == {i \in 1 .. Len(mesh.elems) :
             Structure(mesh'.elems[i]) # Structure(mesh.elems[i])}

\* The active Elements whose error is at least threshold (in tenths) times
\* the error of every active Element, that is, times the maximum.
AtLeastThresholdTimesMax ==
  {i \in ActiveSet(mesh.elems) :
     \A j \in ActiveSet(mesh.elems) :
       call.err[i] * 10 >= call.threshold * call.err[j]}

\* The active Elements whose error is above that of every other one.
UniqueMaximum ==
  {i \in ActiveSet(mesh.elems) :
     \A j \in ActiveSet(mesh.elems) \ {i} : call.err[j] < call.err[i]}

Partitioned(m) ==
  LET seq == ActiveElements(m.elems)
  IN  /\ Len(seq) >= 1
      /\ m.elems[seq[1]].lo = A
      /\ m.elems[seq[Len(seq)]].hi = B
      /\ \A k \in 1 .. Len(seq) : m.elems[seq[k]].lo < m.elems[seq[k]].hi
      /\ \A k \in 1 .. Len(seq) - 1 :
           m.elems[seq[k]].hi = m.elems[seq[k + 1]].lo
      /\ {seq[k] : k \in 1 .. Len(seq)} = ActiveSet(m.elems)
      /\ \A i \in 1 .. Len(m.elems) :
           ~m.elems[i].active =>
             /\ Len(m.elems[i].sons) = 2
             /\ m.elems[i].sons[1] \in 1 .. Len(m.elems)
             /\ m.elems[i].sons[2] \in 1 .. Len(m.elems)
             /\ m.elems[m.elems[i].sons[1]].lo = m.elems[i].lo
             /\ m.elems[m.elems[i].sons[1]].hi
                  = m.elems[m.elems[i].sons[2]].lo
             /\ m.elems[m.elems[i].sons[2]].hi = m.elems[i].hi

\* C18: after the construction of the coarse Space and after any sequence
\* of adapt calls its active Elements partition [A, B], and an Element that
\* a split has made inactive stays inactive and keeps its two children.
C18_ActiveElementsPartitionDomain ==
  /\ [](Partitioned(mesh))
  /\ [][\A i \in 1 .. Len(mesh.elems) :
          ~mesh.elems[i].active =>
            /\ Len(mesh'.elems) >= Len(mesh.elems)
            /\ ~mesh'.elems[i].active
            /\ mesh'.elems[i].sons = mesh.elems[i].sons]_vars

\* Two adapt calls have split the first Element and then its left child.
C18_Witness ==
  /\ call = NoAdaptCall
  /\ Len(mesh.elems) = 6
  /\ ~mesh.elems[1].active
  /\ ~mesh.elems[3].active
  /\ get_n_active_elem(mesh) = 4

\* C19: the reference Space construct_refined_space returns has strictly
\* more degrees of freedom than the coarse Space, and the call leaves the
\* coarse Space as it was.
C19_RefinedSpaceHasMoreDofs ==
  /\ [](ref_mesh # NoMesh => ref_mesh.ndof > mesh.ndof)
  /\ [][(ref_mesh = NoMesh /\ ref_mesh' # NoMesh) => mesh' = mesh]_vars

\* A reference Space of a coarse Space that adapt has refined twice.
C19_Witness ==
  /\ ref_mesh # NoMesh
  /\ mesh.n_ref = 2
  /\ ref_mesh.ndof > mesh.ndof
  /\ get_n_active_elem(ref_mesh) = 2 * get_n_active_elem(mesh)

\* The local coefficients of the active Elements of m.
LocalCoefficients(m) ==
  UNION { {<<i, j>> : j \in 1 .. m.elems[i].p + 1} :
            i \in ActiveSet(m.elems) }

\* The coefficients a Dirichlet condition fixes: one at each Dirichlet end.
DirichletCoefficients(m) == {k \in 1 .. 2 : m.bc[k] = "Dirichlet"}

\* The dof count of m is the number of local coefficients of its active
\* Elements minus the number of Dirichlet-fixed ones; the free coefficients
\* carry the indices 0 .. ndof - 1, each once; and assign_dofs called again
\* returns the same count and the same indices.
DofsAssigned(m) ==
  /\ m.ndof = Cardinality(LocalCoefficients(m))
                - Cardinality(DirichletCoefficients(m))
  /\ {m.elems[x[1]].dof[x[2]] : x \in LocalCoefficients(m)} \ {NoValue}
       = 0 .. m.ndof - 1
  /\ Cardinality({x \in LocalCoefficients(m) :
                    m.elems[x[1]].dof[x[2]] = NoValue})
       = Cardinality(DirichletCoefficients(m))
  /\ assign_dofs(m).ndof = m.ndof
  /\ assign_dofs(m) = m

\* C20: for every boundary configuration, the count assign_dofs returns is
\* the number of local coefficients of the active Elements minus the number
\* of Dirichlet-constrained coefficients, and calling it again on an
\* unchanged Space returns the same count and the same global indices.
C20_AssignDofsCountsFreeCoefficients ==
  /\ DofsAssigned(mesh)
  /\ (ref_mesh # NoMesh => DofsAssigned(ref_mesh))

\* A Space with one Dirichlet end after a split and a raised degree.
C20_Witness ==
  /\ mesh.bc = <<"Neumann", "Dirichlet">>
  /\ mesh.n_ref = 2
  /\ get_n_active_elem(mesh) = 3
  /\ mesh.ndof = 7

\* The objects alive: the slots that hold one.
Alive == {i \in Slots : wrapper[i] # NoWrapper}

C22_PetscLifecycleCompletes ==
  matrix_solver = "SOLVER_PETSC" => pc # "Terminated"

Held == {i \in Slots : wrapper[i].handle}

\* C24: an object that holds a live Mat or Vec handle has inited set, and
\* no handle outlives its object: the handles alive in PETSc are those the
\* objects alive hold, and after free() the object holds none.
C24_NoHandleOutlivesItsWrapper ==
  /\ \A i \in Slots : wrapper[i].handle => wrapper[i].inited
  /\ handles = Cardinality(Held)
  /\ \A i \in Slots : outcome.op = "free" => ~free(wrapper[i]).handle

\* The partial derivatives of the function value returns.  It is of degree
\* one in x and of degree one in y, so its partial derivative is its
\* increase over one unit of the coordinate.
PartialX(x, y) == value(x + 1, y) - value(x, y)
PartialY(x, y) == value(x, y + 1) - value(x, y)

\* C26: at every point the dx and dy that derivatives returns are the
\* partial derivatives of the function that value returns.
C26_DerivativesOfValue ==
  "derivatives" \in point.called =>
    /\ point.dx = PartialX(point.x, point.y)
    /\ point.dy = PartialY(point.x, point.y)

\* C25: a run that leaves the loop in step 30, the tolerance not met,
\* returns ERROR_FAILURE whatever the coarse Space looks like: the verdict
\* flag is 0 from the step-30 block on, and the block's first test, on the
\* estimated error, fails by itself whenever the block is entered, so the
\* tests on the element count and on the degrees decide nothing.
C25_StepLimitAlwaysFails ==
  /\ (pc = "Decide" /\ ~StopOnTolerance /\ StepLimitReached) =>
       /\ err_est_rel > EXACT_TOL
       /\ \A st \in {0, 1} : StepLimitChecks(st) = 0
  /\ hist.stop = "step_limit" => success_test = 0
  /\ (pc = "Returned" /\ hist.stop = "step_limit") => ret = ERROR_FAILURE

\* The loop was left in step 30 by a run that had passed the test of step 2
\* on the exact error, and main() has returned ERROR_FAILURE.
C25_Witness ==
  /\ pc = "Returned"
  /\ hist.stop = "step_limit"
  /\ as = MAX_ADAPT_STEP
  /\ hist.exact2 # NoValue
  /\ hist.exact2 <= EXACT_TOL
  /\ ret = ERROR_FAILURE
====
